---- MODULE Spec2Model ----
(***************************************************************************)
(* Model of the JMAP transport/session client (src/src/client.rs).         *)
(*                                                                         *)
(* The state is the fields of one Client value; `connected` says whether   *)
(* Client::connect has produced it yet.  Every operation is one action     *)
(* whose input is what the HTTP exchange delivers (a transport failure or  *)
(* a response with a status, a Content-Type and a body).  `last` records   *)
(* the most recent invocation: its input, the requests it issued and the   *)
(* value it returned to the caller.  `in_flight` holds the sends that     *)
(* several callers run at once on the shared client.                       *)
(***************************************************************************)
EXTENDS Integers, Sequences, FiniteSets, TLC

VARIABLES connected, session, session_url, session_outdated,
          upload_url, download_url, event_source_url,
          timeout, headers, default_account_id, last, in_flight

vars == <<connected, session, session_url, session_outdated,
          upload_url, download_url, event_source_url,
          timeout, headers, default_account_id, last, in_flight>>

----------------------------------------------------------------------------
(* Bounds and program constants *)

MaxState == 2

MaxCallers == 2

MaxEntries == 3

DEFAULT_TIMEOUT_MS == 10000

USER_AGENT == "stalwart-jmap"

----------------------------------------------------------------------------
(* Values exchanged with the server *)

\* opaque session-state tokens
States == 1..MaxState

Statuses == {200, 404, 500}

PROBLEM_JSON == "application/problem+json"

ContentTypes == {PROBLEM_JSON, "application/json", "none"}

\* URL templates are strings, written here as sequences of characters
GoodTails == {<<"{", "x", "}">>, <<"{", "x", "}", "/", "{", "y", "}">>}

BadTail == <<"{", "x">>

\* the API endpoint and the primary accounts a server advertises
Deployments ==
  {[api_url |-> "https://jmap/api1", primary_accounts |-> <<>>],
   [api_url |-> "https://jmap/api2",
    primary_accounts |-> <<[capability |-> "urn:core", account |-> "A1"],
                           [capability |-> "urn:mail", account |-> "A2"]>>]}

SessionDoc(state, api, dl, ul, es, primary) ==
  [state |-> state, api_url |-> api,
   download_url |-> <<"d">> \o dl, upload_url |-> <<"u">> \o ul,
   event_source_url |-> <<"e">> \o es, primary_accounts |-> primary]

\* session documents whose three templates are well formed
GoodDocs ==
  {SessionDoc(s, dep.api_url, t, t, t, dep.primary_accounts) :
     s \in States, dep \in Deployments, t \in GoodTails}

\* session documents with one malformed template
BadDocs ==
  UNION {{SessionDoc(1, "https://jmap/api1", BadTail, t, t, <<>>),
          SessionDoc(1, "https://jmap/api1", t, BadTail, t, <<>>),
          SessionDoc(1, "https://jmap/api1", t, t, BadTail, <<>>)} :
         t \in GoodTails}

SessionDocs == GoodDocs \cup BadDocs

ProblemDocs ==
  {[type |-> "urn:ietf:params:jmap:error:limit", status |-> 400],
   [type |-> "about:blank", status |-> 500]}

SessionBodies == {[t |-> "session", doc |-> d] : d \in SessionDocs}

EnvelopeBodies ==
  {[t |-> "envelope", session_state |-> s, entries_ok |-> e] :
     s \in States, e \in BOOLEAN}

ProblemBodies == {[t |-> "problem", doc |-> p] : p \in ProblemDocs}

GarbageBody == [t |-> "garbage"]

\* a body whose transfer fails before it is complete
UnreadableBody == [t |-> "unreadable"]

ErrorBodies == ProblemBodies \cup {GarbageBody, UnreadableBody}

Response(status, ctype, body) ==
  [status |-> status, content_type |-> ctype, body |-> body]

\* what one HTTP exchange can deliver
BuildFail == [k |-> "BuildFail"]

SerializeFail == [k |-> "SerializeFail"]

SendFail == [k |-> "SendFail"]

Responded(resp) == [k |-> "Response", response |-> resp]

\* every error status and Content-Type with every error body; a 200 with
\* each of the payloads and error bodies, and under every Content-Type
Replies(payloads) ==
  {BuildFail, SendFail} \cup
  {Responded(Response(s, c, b)) :
     s \in Statuses \ {200}, c \in ContentTypes, b \in ErrorBodies} \cup
  {Responded(Response(200, "application/json", b)) :
     b \in payloads \cup ErrorBodies} \cup
  {Responded(Response(200, c, GarbageBody)) : c \in ContentTypes}

----------------------------------------------------------------------------
(* Results and errors *)

Ok(v) == [ok |-> TRUE, value |-> v]

Err(e) == [ok |-> FALSE, err |-> e]

Unit == [unit |-> TRUE]

TransportError == [kind |-> "Transport"]

ParseError == [kind |-> "Parse"]

TemplateError == [kind |-> "MalformedTemplate"]

ProblemError(doc) == [kind |-> "Problem", problem |-> doc]

ServerError(text) == [kind |-> "Server", text |-> text]

\* format!("{}", status): the code followed by its canonical reason
FormatStatus(status) ==
  CASE status = 200 -> "200 OK"
    [] status = 404 -> "404 Not Found"
    [] status = 500 -> "500 Internal Server Error"
    [] OTHER -> "<unknown status code>"

is_success(status) == status >= 200 /\ status < 300

----------------------------------------------------------------------------
(* URLPart::parse *)

RECURSIVE ParseFrom(_, _, _, _, _)
ParseFrom(url, i, buf, in_parameter, parts) ==
  IF i > Len(url)
  THEN IF in_parameter THEN Err(TemplateError)
       ELSE IF buf # <<>>
            THEN Ok(Append(parts, [kind |-> "Value", text |-> buf]))
            ELSE Ok(parts)
  ELSE IF url[i] = "{"
  THEN IF in_parameter THEN Err(TemplateError)
       ELSE ParseFrom(url, i + 1, <<>>, TRUE,
                      IF buf # <<>>
                      THEN Append(parts, [kind |-> "Value", text |-> buf])
                      ELSE parts)
  ELSE IF url[i] = "}"
  THEN IF in_parameter /\ buf # <<>>
       THEN ParseFrom(url, i + 1, <<>>, FALSE,
                      Append(parts, [kind |-> "Parameter", text |-> buf]))
       ELSE Err(TemplateError)
  ELSE ParseFrom(url, i + 1, Append(buf, url[i]), in_parameter, parts)

URLPart_parse(url) == ParseFrom(url, 1, <<>>, FALSE, <<>>)

----------------------------------------------------------------------------
(* Decoding and error classification *)

\* .bytes().await
bytes(response) ==
  IF response.body.t = "unreadable"
  THEN Err(TransportError)
  ELSE Ok(response.body)

\* a classification by what the body holds instead of by the Content-Type
handle_error_by_body(response) ==
  IF is_success(response.status)
  THEN Ok(response)
  ELSE IF response.body.t = "problem"
  THEN Err(ProblemError(response.body.doc))
  ELSE Err(ServerError(FormatStatus(response.status)))

\* Client::handle_error
handle_error(response) ==
  IF is_success(response.status)
  THEN Ok(response)
  ELSE IF response.content_type = PROBLEM_JSON
  THEN IF ~bytes(response).ok THEN bytes(response)
       ELSE IF bytes(response).value.t = "problem"
            THEN Err(ProblemError(bytes(response).value.doc))
            ELSE Err(ParseError)
  ELSE Err(ServerError(FormatStatus(response.status)))

\* serde_json::from_slice::<Session>
from_slice_session(body) ==
  IF body.t = "session" THEN Ok(body.doc) ELSE Err(ParseError)

\* serde_json::from_slice::<Response<R>>
from_slice_response(body) ==
  IF body.t = "envelope" /\ body.entries_ok
  THEN Ok([session_state |-> body.session_state])
  ELSE Err(ParseError)

\* the GET of the session document, as connect and refresh_session run it
fetch_session(r) ==
  CASE r.k = "BuildFail" -> Err(TransportError)
    [] r.k = "SendFail" -> Err(TransportError)
    [] r.k = "Response" ->
         LET h == handle_error(r.response)
             b == bytes(h.value)
         IN IF ~h.ok THEN h
            ELSE IF ~b.ok THEN b
            ELSE from_slice_session(b.value)

\* the POST of a batch, as send runs it
post_batch(r) ==
  CASE r.k = "BuildFail" -> Err(TransportError)
    [] r.k = "SerializeFail" -> Err(ParseError)
    [] r.k = "SendFail" -> Err(TransportError)
    [] r.k = "Response" ->
         LET h == handle_error(r.response)
             b == bytes(h.value)
         IN IF ~h.ok THEN h
            ELSE IF ~b.ok THEN b
            ELSE from_slice_response(b.value)

HttpRequest(method, url, tmo, hdrs) ==
  [method |-> method, url |-> url, timeout |-> tmo, headers |-> hdrs]

\* a transport failure answered with a second attempt
IssuedWithRetry(r, req) ==
  IF r.k \in {"BuildFail", "SerializeFail"} THEN <<>>
  ELSE IF r.k = "SendFail" THEN <<req, req>>
  ELSE <<req>>

\* the requests one invocation puts on the wire: the single .send() of each
\* method, reached unless building the client or the body failed first
Issued(r, req) == IF r.k \in {"BuildFail", "SerializeFail"} THEN <<>> ELSE <<req>>

----------------------------------------------------------------------------
(* The client *)

NoSession == [none |-> TRUE]

NoHeaders == [none |-> TRUE]

NoParts == <<>>

NoArgs == [none |-> TRUE]

Authorization(credentials) ==
  IF credentials.kind = "Basic"
  THEN <<"Basic", credentials.secret>>
  ELSE <<"Bearer", credentials.secret>>

BaseHeaders(credentials) ==
  [user_agent |-> USER_AGENT, authorization |-> Authorization(credentials)]

ClientHeaders(credentials) ==
  [user_agent |-> USER_AGENT, authorization |-> Authorization(credentials),
   content_type |-> "application/json"]

\* session.primary_accounts().next().map(|a| a.1.to_string()).unwrap_or_default()
FirstPrimaryAccount(doc) ==
  IF doc.primary_accounts = <<>> THEN "" ELSE doc.primary_accounts[1].account

Invocation(op, args, r, reqs, result) ==
  [op |-> op, args |-> args, reply |-> r, outdated_before |-> session_outdated,
   requests |-> reqs, result |-> result]

\* the callers that share the client
Callers == 1..MaxCallers

IdleCall == [stage |-> "idle"]

NoCalls == [before |-> FALSE, calls |-> [p \in Callers |-> IdleCall]]

Init ==
  /\ in_flight = NoCalls
  /\ connected = FALSE
  /\ session = NoSession
  /\ session_url = ""
  /\ session_outdated = FALSE
  /\ upload_url = NoParts
  /\ download_url = NoParts
  /\ event_source_url = NoParts
  /\ timeout = DEFAULT_TIMEOUT_MS
  /\ headers = NoHeaders
  /\ default_account_id = ""
  /\ last = [op |-> "none", args |-> NoArgs, reply |-> BuildFail,
             outdated_before |-> FALSE, requests |-> <<>>, result |-> Ok(Unit)]

\* a connect that keeps the default session URL instead of the one given
connect_fixed_url(url, credentials, r) ==
  LET fetched == fetch_session(r)
      reqs == Issued(r, HttpRequest("GET", url, DEFAULT_TIMEOUT_MS,
                                    BaseHeaders(credentials)))
      args == [url |-> url, credentials |-> credentials]
      d == URLPart_parse(fetched.value.download_url)
      u == URLPart_parse(fetched.value.upload_url)
      e == URLPart_parse(fetched.value.event_source_url)
      failure == IF ~fetched.ok THEN fetched
                 ELSE IF ~d.ok THEN d
                 ELSE IF ~u.ok THEN u
                 ELSE IF ~e.ok THEN e
                 ELSE Ok(Unit)
  IN /\ ~connected
     /\ IF failure.ok
        THEN /\ connected' = TRUE
             /\ download_url' = d.value
             /\ upload_url' = u.value
             /\ event_source_url' = e.value
             /\ session' = fetched.value
             /\ session_url' = "https://jmap/session"
             /\ session_outdated' = FALSE
             /\ timeout' = DEFAULT_TIMEOUT_MS
             /\ headers' = ClientHeaders(credentials)
             /\ default_account_id' = FirstPrimaryAccount(fetched.value)
             /\ last' = Invocation("connect", args, r, reqs, Ok(Unit))
        ELSE /\ UNCHANGED <<connected, session, session_url, session_outdated,
                            upload_url, download_url, event_source_url,
                            timeout, headers, default_account_id>>
             /\ last' = Invocation("connect", args, r, reqs, failure)

\* Client::connect
connect(url, credentials, r) ==
  LET fetched == fetch_session(r)
      reqs == Issued(r, HttpRequest("GET", url, DEFAULT_TIMEOUT_MS,
                                    BaseHeaders(credentials)))
      args == [url |-> url, credentials |-> credentials]
      d == URLPart_parse(fetched.value.download_url)
      u == URLPart_parse(fetched.value.upload_url)
      e == URLPart_parse(fetched.value.event_source_url)
      failure == IF ~fetched.ok THEN fetched
                 ELSE IF ~d.ok THEN d
                 ELSE IF ~u.ok THEN u
                 ELSE IF ~e.ok THEN e
                 ELSE Ok(Unit)
  IN /\ ~connected
     /\ IF failure.ok
        THEN /\ connected' = TRUE
             /\ download_url' = d.value
             /\ upload_url' = u.value
             /\ event_source_url' = e.value
             /\ session' = fetched.value
             /\ session_url' = url
             /\ session_outdated' = FALSE
             /\ timeout' = DEFAULT_TIMEOUT_MS
             /\ headers' = ClientHeaders(credentials)
             /\ default_account_id' = FirstPrimaryAccount(fetched.value)
             /\ last' = Invocation("connect", args, r, reqs, Ok(Unit))
        ELSE /\ UNCHANGED <<connected, session, session_url, session_outdated,
                            upload_url, download_url, event_source_url,
                            timeout, headers, default_account_id>>
             /\ last' = Invocation("connect", args, r, reqs, failure)

\* Client::is_session_updated
is_session_updated == ~session_outdated

\* a comparison that marks the session outdated on equal tokens
outdated_after_send_inverted(result) ==
  IF result.ok /\ result.value.session_state = session.state
  THEN TRUE
  ELSE session_outdated

\* a store of the comparison's outcome, which a matching token clears
outdated_after_send_overwriting(result) ==
  IF result.ok
  THEN result.value.session_state # session.state
  ELSE session_outdated

\* a store that also happens when the call is about to fail
outdated_after_send_on_failure(result) ==
  IF result.ok
  THEN result.value.session_state # session.state \/ session_outdated
  ELSE TRUE

\* the flag once send has compared the tokens (it runs only after `?`)
outdated_after_send(result) ==
  IF result.ok /\ result.value.session_state # session.state
  THEN TRUE
  ELSE session_outdated

\* a send that fetches and installs a new session when the token differs
send_auto_refresh(r) ==
  LET response == post_batch(r)
      post == HttpRequest("POST", session.api_url, timeout, headers)
      get == HttpRequest("GET", session_url, DEFAULT_TIMEOUT_MS, headers)
      differs == response.ok /\ response.value.session_state # session.state
  IN /\ connected
     /\ session' = IF differs
                   THEN [session EXCEPT !.state = response.value.session_state]
                   ELSE session
     /\ session_outdated' = session_outdated
     /\ last' = Invocation("send", NoArgs, r,
                           IF differs THEN <<post, get>> ELSE Issued(r, post),
                           response)
     /\ UNCHANGED <<connected, session_url, upload_url, download_url,
                    event_source_url, timeout, headers, default_account_id>>

\* a send that refuses to run while the session is outdated
send_blocking(r) ==
  LET response == IF session_outdated THEN Err([kind |-> "Internal"])
                  ELSE post_batch(r)
      post == HttpRequest("POST", session.api_url, timeout, headers)
  IN /\ connected
     /\ session_outdated' = outdated_after_send(response)
     /\ last' = Invocation("send", NoArgs, r,
                           IF session_outdated THEN <<>> ELSE Issued(r, post),
                           response)
     /\ UNCHANGED <<connected, session, session_url, upload_url, download_url,
                    event_source_url, timeout, headers, default_account_id>>

\* a send that posts the batch to the session URL
send_posts_to_session_url(r) ==
  LET response == post_batch(r)
      reqs == Issued(r, HttpRequest("POST", session_url, timeout, headers))
  IN /\ connected
     /\ session_outdated' = outdated_after_send(response)
     /\ last' = Invocation("send", NoArgs, r, reqs, response)
     /\ UNCHANGED <<connected, session, session_url, upload_url, download_url,
                    event_source_url, timeout, headers, default_account_id>>

\* Client::send
send(r) ==
  LET response == post_batch(r)
      reqs == Issued(r, HttpRequest("POST", session.api_url, timeout, headers))
  IN /\ connected
     /\ session_outdated' = outdated_after_send(response)
     /\ last' = Invocation("send", NoArgs, r, reqs, response)
     /\ UNCHANGED <<connected, session, session_url, upload_url, download_url,
                    event_source_url, timeout, headers, default_account_id>>

\* a refresh that takes the default account from the new session
refresh_session_recomputes_account(r) ==
  LET fetched == fetch_session(r)
      reqs == Issued(r, HttpRequest("GET", session_url, DEFAULT_TIMEOUT_MS,
                                    headers))
      d == URLPart_parse(fetched.value.download_url)
      u == URLPart_parse(fetched.value.upload_url)
      e == URLPart_parse(fetched.value.event_source_url)
      failure == IF ~fetched.ok THEN fetched
                 ELSE IF ~d.ok THEN d
                 ELSE IF ~u.ok THEN u
                 ELSE IF ~e.ok THEN e
                 ELSE Ok(Unit)
  IN /\ connected
     /\ UNCHANGED <<connected, session_url, timeout, headers>>
     /\ last' = Invocation("refresh_session", NoArgs, r, reqs, failure)
     /\ IF failure.ok
        THEN /\ download_url' = d.value
             /\ upload_url' = u.value
             /\ event_source_url' = e.value
             /\ session' = fetched.value
             /\ session_outdated' = FALSE
             /\ default_account_id' = FirstPrimaryAccount(fetched.value)
        ELSE UNCHANGED <<session, session_outdated, upload_url, download_url,
                         event_source_url, default_account_id>>

\* a refresh that installs the new session but leaves the flag alone
refresh_session_keeps_flag(r) ==
  LET fetched == fetch_session(r)
      reqs == Issued(r, HttpRequest("GET", session_url, DEFAULT_TIMEOUT_MS,
                                    headers))
      d == URLPart_parse(fetched.value.download_url)
      u == URLPart_parse(fetched.value.upload_url)
      e == URLPart_parse(fetched.value.event_source_url)
      failure == IF ~fetched.ok THEN fetched
                 ELSE IF ~d.ok THEN d
                 ELSE IF ~u.ok THEN u
                 ELSE IF ~e.ok THEN e
                 ELSE Ok(Unit)
  IN /\ connected
     /\ UNCHANGED <<connected, session_url, timeout, headers,
                    default_account_id, session_outdated>>
     /\ last' = Invocation("refresh_session", NoArgs, r, reqs, failure)
     /\ IF failure.ok
        THEN /\ download_url' = d.value
             /\ upload_url' = u.value
             /\ event_source_url' = e.value
             /\ session' = fetched.value
        ELSE UNCHANGED <<session, upload_url, download_url, event_source_url>>

\* Client::refresh_session
refresh_session(r) ==
  LET fetched == fetch_session(r)
      reqs == Issued(r, HttpRequest("GET", session_url, DEFAULT_TIMEOUT_MS,
                                    headers))
      d == URLPart_parse(fetched.value.download_url)
      u == URLPart_parse(fetched.value.upload_url)
      e == URLPart_parse(fetched.value.event_source_url)
  IN /\ connected
     /\ UNCHANGED <<connected, session_url, timeout, headers,
                    default_account_id>>
     /\ IF ~fetched.ok
        THEN /\ UNCHANGED <<session, session_outdated, upload_url,
                            download_url, event_source_url>>
             /\ last' = Invocation("refresh_session", NoArgs, r, reqs, fetched)
        ELSE IF ~d.ok
        THEN /\ UNCHANGED <<session, session_outdated, upload_url,
                            download_url, event_source_url>>
             /\ last' = Invocation("refresh_session", NoArgs, r, reqs, d)
        ELSE IF ~u.ok
        THEN /\ download_url' = d.value
             /\ UNCHANGED <<session, session_outdated, upload_url,
                            event_source_url>>
             /\ last' = Invocation("refresh_session", NoArgs, r, reqs, u)
        ELSE IF ~e.ok
        THEN /\ download_url' = d.value
             /\ upload_url' = u.value
             /\ UNCHANGED <<session, session_outdated, event_source_url>>
             /\ last' = Invocation("refresh_session", NoArgs, r, reqs, e)
        ELSE /\ download_url' = d.value
             /\ upload_url' = u.value
             /\ event_source_url' = e.value
             /\ session' = fetched.value
             /\ session_outdated' = FALSE
             /\ last' = Invocation("refresh_session", NoArgs, r, reqs, Ok(Unit))

\* an operation that exchanges nothing with the server
NoReply == [k |-> "None"]

\* Client::set_timeout
set_timeout(t) ==
  /\ connected
  /\ timeout' = t
  /\ last' = Invocation("set_timeout", [timeout |-> t], NoReply, <<>>, Ok(Unit))
  /\ UNCHANGED <<connected, session, session_url, session_outdated,
                 upload_url, download_url, event_source_url, headers,
                 default_account_id>>

\* Client::set_default_account_id
set_default_account_id(id) ==
  /\ connected
  /\ default_account_id' = id
  /\ last' = Invocation("set_default_account_id", [id |-> id], NoReply, <<>>,
                        Ok(Unit))
  /\ UNCHANGED <<connected, session, session_url, session_outdated,
                 upload_url, download_url, event_source_url, timeout,
                 headers>>

----------------------------------------------------------------------------
(* Inputs and the specification *)

SessionReplies == Replies(SessionBodies)

SendReplies == {SerializeFail} \cup Replies(EnvelopeBodies)

\* the (url, credentials) pairs handed to connect
ConnectArgs ==
  {[url |-> "https://jmap/session",
    credentials |-> [kind |-> "Basic", secret |-> "dXNlcjpwdw"]],
   [url |-> "https://alt/session",
    credentials |-> [kind |-> "Bearer", secret |-> "token"]]}

Connect ==
  /\ \E a \in ConnectArgs, r \in SessionReplies :
       connect(a.url, a.credentials, r)
  /\ UNCHANGED in_flight

Send ==
  /\ \E r \in SendReplies : send(r)
  /\ UNCHANGED in_flight

RefreshSession ==
  /\ \E r \in SessionReplies : refresh_session(r)
  /\ UNCHANGED in_flight

Next == Connect \/ Send \/ RefreshSession

Spec == Init /\ [][Next]_vars

----------------------------------------------------------------------------
(* The client with its configuration operations, on fewer exchanges *)

Timeouts == {DEFAULT_TIMEOUT_MS, 5000}

AccountIds == {"A2", "B7"}

ConfigSessionReplies ==
  {SendFail,
   Responded(Response(404, PROBLEM_JSON,
                      [t |-> "problem",
                       doc |-> [type |-> "about:blank", status |-> 500]]))}
    \cup {Responded(Response(200, "application/json", b)) : b \in SessionBodies}

ConfigSendReplies ==
  {SendFail, Responded(Response(500, "none", GarbageBody))}
    \cup {Responded(Response(200, "application/json", b)) : b \in EnvelopeBodies}

ConfigConnect ==
  /\ \E a \in ConnectArgs, r \in ConfigSessionReplies :
       connect(a.url, a.credentials, r)
  /\ UNCHANGED in_flight

ConfigSend ==
  /\ \E r \in ConfigSendReplies : send(r)
  /\ UNCHANGED in_flight

ConfigRefreshSession ==
  /\ \E r \in ConfigSessionReplies : refresh_session(r)
  /\ UNCHANGED in_flight

SetTimeout ==
  /\ \E t \in Timeouts : set_timeout(t)
  /\ UNCHANGED in_flight

SetDefaultAccountId ==
  /\ \E id \in AccountIds : set_default_account_id(id)
  /\ UNCHANGED in_flight

NextConfig ==
  \/ ConfigConnect
  \/ ConfigSend
  \/ ConfigRefreshSession
  \/ SetTimeout
  \/ SetDefaultAccountId

SpecConfig == Init /\ [][NextConfig]_vars

----------------------------------------------------------------------------
(* Sends of several callers on one shared client (send takes &self) *)

Running(p) == in_flight.calls[p].stage \in {"posted", "received"}

Returned(p) == in_flight.calls[p].stage = "returned"

\* no send holds a borrow of the client
Quiescent == \A p \in Callers : ~Running(p)

\* the sends that were started together have all returned
BatchComplete == Quiescent /\ \E p \in Callers : Returned(p)

\* caller p starts a send: the request is built and put on the wire; a send
\* started after all earlier ones returned begins a new batch
send_post(p) ==
  /\ connected
  /\ in_flight.calls[p].stage \in {"idle", "returned"}
  /\ in_flight.calls[p].stage = "returned" => Quiescent
  /\ in_flight' =
       IF Quiescent
       THEN [before |-> session_outdated,
             calls |-> [q \in Callers |->
                          IF q = p THEN [stage |-> "posted"] ELSE IdleCall]]
       ELSE [in_flight EXCEPT !.calls[p] = [stage |-> "posted"]]
  /\ UNCHANGED <<connected, session, session_url, session_outdated,
                 upload_url, download_url, event_source_url, timeout,
                 headers, default_account_id, last>>

\* the exchange of caller p ends and its outcome is decoded
send_receive(p, r) ==
  /\ in_flight.calls[p].stage = "posted"
  /\ in_flight' = [in_flight EXCEPT
                     !.calls[p] = [stage |-> "received",
                                   result |-> post_batch(r)]]
  /\ UNCHANGED <<connected, session, session_url, session_outdated,
                 upload_url, download_url, event_source_url, timeout,
                 headers, default_account_id, last>>

\* caller p compares the tokens, stores into session_outdated and returns
send_store(p) ==
  /\ in_flight.calls[p].stage = "received"
  /\ session_outdated' = outdated_after_send(in_flight.calls[p].result)
  /\ in_flight' = [in_flight EXCEPT !.calls[p].stage = "returned"]
  /\ UNCHANGED <<connected, session, session_url, upload_url, download_url,
                 event_source_url, timeout, headers, default_account_id,
                 last>>

\* one deployment's session documents, one per session state
SharedSessionReplies ==
  {Responded(Response(200, "application/json", [t |-> "session", doc |-> d])) :
     d \in {g \in GoodDocs : /\ g.primary_accounts = <<>>
                             /\ Len(g.download_url) = 4}}

SharedConnect ==
  /\ \E a \in {c \in ConnectArgs : c.credentials.kind = "Bearer"},
        r \in SharedSessionReplies \cup {SendFail} :
       connect(a.url, a.credentials, r)
  /\ UNCHANGED in_flight

\* refresh_session takes &mut self: it runs only while no send is running,
\* and the sends that returned before it are over
SharedRefreshSession ==
  /\ Quiescent
  /\ \E r \in SharedSessionReplies \cup {SendFail} : refresh_session(r)
  /\ in_flight' = NoCalls

SendPost == \E p \in Callers : send_post(p)

SendReceive == \E p \in Callers, r \in ConfigSendReplies : send_receive(p, r)

SendStore == \E p \in Callers : send_store(p)

NextShared ==
  \/ SharedConnect
  \/ SharedRefreshSession
  \/ SendPost
  \/ SendReceive
  \/ SendStore

SpecShared == Init /\ [][NextShared]_vars

----------------------------------------------------------------------------
(* The response correlator: parsing a batch response and looking up the   *)
(* entries of a call-id                                                    *)

MethodNames == {"Email/query", "Email/get", "Thread/get"}

CallIds == {"t0", "t1", "t2"}

Payload == [accountId |-> "A1"]

\* an entry of methodResponses as it is on the wire: [name, payload, callId],
\* or an array that lacks its callId
RawEntries ==
  {<<n, Payload, c>> : n \in MethodNames, c \in CallIds}
    \cup {<<"Email/get", Payload>>}

RECURSIVE SeqsUpTo(_, _)
SeqsUpTo(S, n) ==
  IF n = 0 THEN {<<>>}
  ELSE LET shorter == SeqsUpTo(S, n - 1)
       IN shorter \cup {Append(q, x) : q \in {t \in shorter : Len(t) = n - 1},
                                       x \in S}

RawEnvelopes ==
  {[sessionState |-> 1, methodResponses |-> m] :
     m \in SeqsUpTo(RawEntries, MaxEntries)}

\* the three-entry sample of tests::test_deserialize
SampleEnvelope ==
  [sessionState |-> 1,
   methodResponses |-> <<<<"Email/query", Payload, "t0">>,
                         <<"Email/get", Payload, "t1">>,
                         <<"Thread/get", Payload, "t2">>>>]

\* BatchResponse parse: every entry must be a [name, payload, callId] triple
parse_response(raw) ==
  IF \A i \in DOMAIN raw.methodResponses : Len(raw.methodResponses[i]) = 3
  THEN Ok([session_state |-> raw.sessionState,
           method_responses |->
             [i \in DOMAIN raw.methodResponses |->
                [name |-> raw.methodResponses[i][1],
                 payload |-> raw.methodResponses[i][2],
                 call_id |-> raw.methodResponses[i][3]]]])
  ELSE Err(ParseError)

\* a lookup that stops at the first entry of the call-id
entries_for_first_only(response, call_id) ==
  LET found == SelectSeq(response.method_responses,
                         LAMBDA e : e.call_id = call_id)
  IN IF found = <<>> THEN <<>> ELSE <<found[1]>>

\* entries_for(call_id)
entries_for(response, call_id) ==
  SelectSeq(response.method_responses, LAMBDA e : e.call_id = call_id)

\* a caller holds the bytes of a response and a call-id to look up
InitResponses ==
  /\ in_flight = NoCalls
  /\ connected = FALSE
  /\ session = NoSession
  /\ session_url = ""
  /\ session_outdated = FALSE
  /\ upload_url = NoParts
  /\ download_url = NoParts
  /\ event_source_url = NoParts
  /\ timeout = DEFAULT_TIMEOUT_MS
  /\ headers = NoHeaders
  /\ default_account_id = ""
  /\ \E raw \in RawEnvelopes, c \in CallIds \cup {"nonexistent"} :
       last = [op |-> "input", args |-> [raw |-> raw, call_id |-> c],
               reply |-> NoReply, outdated_before |-> FALSE,
               requests |-> <<>>, result |-> Ok(Unit)]

\* the caller parses the response and asks for the entries of the call-id
lookup_entries ==
  /\ last.op = "input"
  /\ LET parsed == parse_response(last.args.raw)
     IN last' = Invocation("entries_for", last.args, NoReply, <<>>,
                           IF parsed.ok
                           THEN Ok(entries_for(parsed.value, last.args.call_id))
                           ELSE parsed)
  /\ UNCHANGED <<connected, session, session_url, session_outdated,
                 upload_url, download_url, event_source_url, timeout,
                 headers, default_account_id, in_flight>>

NextResponses == lookup_entries

SpecResponses == InitResponses /\ [][NextResponses]_vars

----------------------------------------------------------------------------
(* The email query Filter (src/src/email/query.rs) and its serialization *)

StringKinds ==
  {"InMailbox", "AllInThreadHaveKeyword", "SomeInThreadHaveKeyword",
   "NoneInThreadHaveKeyword", "HasKeyword", "NotKeyword", "Text", "From",
   "To", "Cc", "Bcc", "Subject", "Body"}

ListKinds == {"InMailboxOtherThan", "Header"}

DateKinds == {"Before", "After"}

SizeKinds == {"MinSize", "MaxSize"}

FlagKinds == {"HasAttachment"}

FilterKinds ==
  StringKinds \cup ListKinds \cup DateKinds \cup SizeKinds \cup FlagKinds

\* the values a variant's `value` field is given here, each under its type
FieldValues(kind) ==
  IF kind \in StringKinds THEN {[string |-> "a"], [string |-> "b"]}
  ELSE IF kind \in ListKinds THEN {[list |-> <<>>], [list |-> <<"a", "b">>]}
  ELSE IF kind \in DateKinds THEN {[datetime |-> 0]}
  ELSE IF kind \in SizeKinds THEN {[u32 |-> 0], [u32 |-> 1024]}
  ELSE {[bool |-> TRUE], [bool |-> FALSE]}

Filters ==
  UNION {{[kind |-> k, value |-> v] : v \in FieldValues(k)} : k \in FilterKinds}

\* a renaming in which NotKeyword took over the name of HasKeyword
FieldNameCopied(kind) ==
  CASE kind = "InMailbox" -> "inMailbox"
    [] kind = "InMailboxOtherThan" -> "inMailboxOtherThan"
    [] kind = "Before" -> "before"
    [] kind = "After" -> "after"
    [] kind = "MinSize" -> "minSize"
    [] kind = "MaxSize" -> "maxSize"
    [] kind = "AllInThreadHaveKeyword" -> "allInThreadHaveKeyword"
    [] kind = "SomeInThreadHaveKeyword" -> "someInThreadHaveKeyword"
    [] kind = "NoneInThreadHaveKeyword" -> "noneInThreadHaveKeyword"
    [] kind = "HasKeyword" -> "hasKeyword"
    [] kind = "NotKeyword" -> "hasKeyword"
    [] kind = "HasAttachment" -> "hasAttachment"
    [] kind = "Text" -> "text"
    [] kind = "From" -> "from"
    [] kind = "To" -> "to"
    [] kind = "Cc" -> "cc"
    [] kind = "Bcc" -> "bcc"
    [] kind = "Subject" -> "subject"
    [] kind = "Body" -> "body"
    [] kind = "Header" -> "header"

\* #[serde(rename = "...")] of each variant's field
FieldName(kind) ==
  CASE kind = "InMailbox" -> "inMailbox"
    [] kind = "InMailboxOtherThan" -> "inMailboxOtherThan"
    [] kind = "Before" -> "before"
    [] kind = "After" -> "after"
    [] kind = "MinSize" -> "minSize"
    [] kind = "MaxSize" -> "maxSize"
    [] kind = "AllInThreadHaveKeyword" -> "allInThreadHaveKeyword"
    [] kind = "SomeInThreadHaveKeyword" -> "someInThreadHaveKeyword"
    [] kind = "NoneInThreadHaveKeyword" -> "noneInThreadHaveKeyword"
    [] kind = "HasKeyword" -> "hasKeyword"
    [] kind = "NotKeyword" -> "notKeyword"
    [] kind = "HasAttachment" -> "hasAttachment"
    [] kind = "Text" -> "text"
    [] kind = "From" -> "from"
    [] kind = "To" -> "to"
    [] kind = "Cc" -> "cc"
    [] kind = "Bcc" -> "bcc"
    [] kind = "Subject" -> "subject"
    [] kind = "Body" -> "body"
    [] kind = "Header" -> "header"

\* #[derive(Serialize)] #[serde(untagged)]: the variant's fields as an
\* object, without a tag for the variant
serialize_filter(filter) ==
  [key \in {FieldName(filter.kind)} |-> filter.value]

\* a caller holds two filters
InitFilters ==
  /\ in_flight = NoCalls
  /\ connected = FALSE
  /\ session = NoSession
  /\ session_url = ""
  /\ session_outdated = FALSE
  /\ upload_url = NoParts
  /\ download_url = NoParts
  /\ event_source_url = NoParts
  /\ timeout = DEFAULT_TIMEOUT_MS
  /\ headers = NoHeaders
  /\ default_account_id = ""
  /\ \E f \in Filters, g \in Filters :
       last = [op |-> "filters", args |-> [a |-> f, b |-> g],
               reply |-> NoReply, outdated_before |-> FALSE,
               requests |-> <<>>, result |-> Ok(Unit)]

\* the caller serializes both
serialize_filters ==
  /\ last.op = "filters"
  /\ last' = Invocation("serialize", last.args, NoReply, <<>>,
                        Ok([a |-> serialize_filter(last.args.a),
                            b |-> serialize_filter(last.args.b)]))
  /\ UNCHANGED <<connected, session, session_url, session_outdated,
                 upload_url, download_url, event_source_url, timeout,
                 headers, default_account_id, in_flight>>

NextFilters == serialize_filters

SpecFilters == InitFilters /\ [][NextFilters]_vars

----------------------------------------------------------------------------
(* Properties *)

NetworkOps == {"connect", "send", "refresh_session"}

SendReturned == last.op = "send"

SendSucceeded == last.op = "send" /\ last.result.ok

RefreshReturned == last.op = "refresh_session"

GotResponse == last.op \in NetworkOps /\ last.reply.k = "Response"

TemplatesOf(doc) ==
  [download |-> URLPart_parse(doc.download_url),
   upload |-> URLPart_parse(doc.upload_url),
   event_source |-> URLPart_parse(doc.event_source_url)]

TemplatesMatch(doc) ==
  /\ Ok(download_url) = TemplatesOf(doc).download
  /\ Ok(upload_url) = TemplatesOf(doc).upload
  /\ Ok(event_source_url) = TemplatesOf(doc).event_source

\* C1: a successful send whose response carries a session-state token that
\* differs from the cached Session's token returns with the session marked
\* outdated, i.e. is_session_updated() is false.
C1_DifferingTokenMarksOutdated ==
  (SendSucceeded /\ last.result.value.session_state # session.state)
    => is_session_updated = FALSE

\* a send issued on a fresh session came back with another token
C1_Witness ==
  /\ SendSucceeded
  /\ ~last.outdated_before
  /\ last.result.value.session_state # session.state
  /\ session_outdated

\* C2 as stated: a successful send whose response carries the cached
\* Session's token returns with is_session_updated() true, in any state.
C2_Original ==
  (SendSucceeded /\ last.result.value.session_state = session.state)
    => is_session_updated = TRUE

\* C2: a successful send whose response carries the cached Session's token
\* leaves the staleness flag as it was when the send was issued: still false
\* on a fresh session, still true on an outdated one.
C2_MatchingTokenKeepsFlag ==
  (SendSucceeded /\ last.result.value.session_state = session.state)
    => session_outdated = last.outdated_before

\* a send on an outdated session came back with the cached token
C2_Witness ==
  /\ SendSucceeded
  /\ last.result.value.session_state = session.state
  /\ last.outdated_before
  /\ session_outdated

\* C3: when refresh_session returns Ok, the cached Session is the document
\* the server sent, the three URL templates are the parse of that document's
\* templates and the session is not marked outdated.
C3_RefreshInstallsFetchedSession ==
  (RefreshReturned /\ last.result.ok)
    => /\ last.reply.k = "Response"
       /\ last.reply.response.body.t = "session"
       /\ session = last.reply.response.body.doc
       /\ TemplatesMatch(last.reply.response.body.doc)
       /\ is_session_updated

\* a refresh issued on an outdated session succeeded
C3_Witness ==
  /\ RefreshReturned
  /\ last.result.ok
  /\ last.outdated_before
  /\ ~session_outdated

\* C4: a refresh_session that returns an error leaves the cached Session,
\* the three parsed URL templates and the staleness flag as they were.
C4_FailedRefreshChangesNothing ==
  [][(last'.op = "refresh_session" /\ ~last'.result.ok)
       => UNCHANGED <<session, download_url, upload_url, event_source_url,
                      session_outdated>>]_vars

\* C5: between operations the three parsed URL templates of a constructed
\* client are the parse of the cached Session's templates.
C5_TemplatesBelongToSession ==
  connected => TemplatesMatch(session)

\* C6: a send, whatever it returns, leaves the cached Session, the session
\* URL and the three parsed URL templates unchanged and issues no GET of the
\* session URL.
C6_SendNeverRefreshes ==
  [][last'.op = "send"
       => /\ UNCHANGED <<session, session_url, download_url, upload_url,
                         event_source_url>>
          /\ \A i \in DOMAIN last'.requests :
               /\ last'.requests[i].method = "POST"
               /\ last'.requests[i].url = session.api_url]_vars

\* a send learned of a new session state and issued nothing but its POST
C6_Witness ==
  /\ SendSucceeded
  /\ last.result.value.session_state # session.state
  /\ Len(last.requests) = 1
  /\ last.requests[1].method = "POST"

\* C7: a send issued while the session is marked outdated puts its POST on
\* the wire and returns what the exchange yields, as on a fresh session.
C7_OutdatedSendStillRuns ==
  (SendReturned /\ last.outdated_before)
    => /\ last.requests =
            Issued(last.reply,
                   HttpRequest("POST", session.api_url, timeout, headers))
       /\ last.result = post_batch(last.reply)

\* a send issued on an outdated session returned the server's response
C7_Witness ==
  /\ SendSucceeded
  /\ last.outdated_before
  /\ Len(last.requests) = 1

IsProblemBody(response) == response.body.t = "problem"

\* C8 as stated: the body alone decides between the problem error and the
\* bare server error of a non-2xx response.
C8_Original ==
  GotResponse =>
    LET response == last.reply.response
    IN IF is_success(response.status)
       THEN last.result.ok \/ last.result.err.kind \notin {"Problem", "Server"}
       ELSE IF IsProblemBody(response)
       THEN last.result = Err(ProblemError(response.body.doc))
       ELSE last.result = Err(ServerError(FormatStatus(response.status)))

\* C8: a 2xx response is passed on as success; a non-2xx response whose
\* Content-Type is application/problem+json yields the problem error with
\* the server's document when the body is one, a decode error when it is
\* not and a transport error when it cannot be read; a non-2xx response
\* with another or no Content-Type yields the bare server error made of the
\* status alone, whatever its body.
C8_ClassifiedByContentType ==
  GotResponse =>
    LET response == last.reply.response
    IN IF is_success(response.status)
       THEN last.result.ok \/ last.result.err.kind \notin {"Problem", "Server"}
       ELSE IF response.content_type # PROBLEM_JSON
       THEN last.result = Err(ServerError(FormatStatus(response.status)))
       ELSE IF IsProblemBody(response)
       THEN last.result = Err(ProblemError(response.body.doc))
       ELSE IF response.body = UnreadableBody
       THEN last.result = Err(TransportError)
       ELSE last.result = Err(ParseError)

\* a non-2xx problem document came back as the problem error
C8_Witness ==
  /\ GotResponse
  /\ ~is_success(last.reply.response.status)
  /\ last.reply.response.content_type = PROBLEM_JSON
  /\ IsProblemBody(last.reply.response)
  /\ ~last.result.ok
  /\ last.result.err.kind = "Problem"

\* C9: an invocation of connect, send or refresh_session issues at most one
\* HTTP request, and none of its failures is followed by a second attempt.
C9_AtMostOneRequest ==
  last.op \in NetworkOps => Len(last.requests) <= 1

\* an invocation failed in transport after its one request
C9_Witness ==
  /\ last.op \in NetworkOps
  /\ last.reply = SendFail
  /\ ~last.result.ok
  /\ Len(last.requests) = 1

\* C10: a send that returns an error leaves the staleness flag and the
\* cached Session as they were.
C10_FailedSendChangesNothing ==
  [][(last'.op = "send" /\ ~last'.result.ok)
       => UNCHANGED <<session_outdated, session>>]_vars

\* a send failed on an envelope that carried a new session state
C10_Witness ==
  /\ SendReturned
  /\ ~last.result.ok
  /\ last.reply.k = "Response"
  /\ is_success(last.reply.response.status)
  /\ last.reply.response.body.t = "envelope"
  /\ last.reply.response.body.session_state # session.state
  /\ ~session_outdated

\* C11: a 2xx response whose envelope is well formed and carries a session
\* state differing from the cached one marks the session outdated even when
\* one of its entries does not decode into the caller's result type.
C11_TokenComparedDespiteBadEntry ==
  (/\ SendReturned
   /\ last.reply.k = "Response"
   /\ is_success(last.reply.response.status)
   /\ last.reply.response.body.t = "envelope"
   /\ last.reply.response.body.session_state # session.state)
    => session_outdated

\* C12: when connect returns Ok there is a client whose session is not
\* marked outdated, whose cached Session is the document the server sent
\* and whose session URL is the URL given; when it returns an error there is
\* no client.
C12_ConnectYieldsReadyClient ==
  last.op = "connect" =>
    IF last.result.ok
    THEN /\ connected
         /\ is_session_updated
         /\ last.reply.k = "Response"
         /\ last.reply.response.body.t = "session"
         /\ session = last.reply.response.body.doc
         /\ session_url = last.args.url
    ELSE ~connected

\* a connect to the alternative session URL succeeded
C12_Witness ==
  /\ last.op = "connect"
  /\ last.result.ok
  /\ connected
  /\ last.args.url = "https://alt/session"

\* C15: once the session is marked outdated it stays so through every step
\* except a refresh_session that returns Ok.
C15_OutdatedUntilRefreshed ==
  [][(session_outdated /\ ~session_outdated')
       => (last'.op = "refresh_session" /\ last'.result.ok)]_vars

\* a send on an outdated session received the cached token and the session
\* is still marked outdated
C15_Witness ==
  /\ SendReturned
  /\ last.outdated_before
  /\ last.reply.k = "Response"
  /\ last.reply.response.body.t = "envelope"
  /\ last.reply.response.body.session_state = session.state
  /\ session_outdated

\* C17: a send posts to the api_url of the cached Session and compares the
\* response's token with the state of that same Session.
C17_SendUsesCachedSession ==
  SendReturned =>
    /\ \A i \in DOMAIN last.requests :
         /\ last.requests[i].method = "POST"
         /\ last.requests[i].url = session.api_url
    /\ last.result.ok =>
         (session_outdated <=>
            (last.outdated_before
               \/ last.result.value.session_state # session.state))

\* after a refresh replaced the session obtained by connect with one of
\* another deployment, a send used the new api_url and the new state
C17_Witness ==
  /\ SendSucceeded
  /\ default_account_id # FirstPrimaryAccount(session)
  /\ Len(last.requests) = 1
  /\ last.requests[1].url = session.api_url
  /\ last.result.value.session_state = session.state
  /\ ~session_outdated

\* C13: every request of send and refresh_session is issued with the
\* timeout the client is configured with: the value of the latest
\* set_timeout, or the default when there was none.
C13_CallsUseConfiguredTimeout ==
  last.op \in {"send", "refresh_session"} =>
    \A i \in DOMAIN last.requests : last.requests[i].timeout = timeout

\* C18: refresh_session, whatever it returns, leaves session URL, headers,
\* timeout and default account id as they were; the default account id a
\* successful connect sets is the account of the session's first primary
\* account, or the empty string when there is none.
C18_RefreshKeepsConfiguration ==
  [][/\ last'.op = "refresh_session"
          => UNCHANGED <<session_url, headers, timeout, default_account_id>>
     /\ (last'.op = "connect" /\ last'.result.ok)
          => default_account_id' =
               IF session'.primary_accounts = <<>>
               THEN ""
               ELSE session'.primary_accounts[1].account]_vars

\* a client connected to a session without primary accounts, with another
\* timeout configured, refreshed to a session that has primary accounts
C18_Witness ==
  /\ RefreshReturned
  /\ last.result.ok
  /\ timeout # DEFAULT_TIMEOUT_MS
  /\ default_account_id = ""
  /\ session.primary_accounts # <<>>

\* C16: once the sends that ran together on the shared client have all
\* returned, the session is marked outdated exactly when it was before they
\* started or one of them succeeded with a token differing from the cached
\* Session's, whatever the order of their steps.
C16_ConcurrentSendsAccumulate ==
  BatchComplete =>
    (session_outdated <=>
       \/ in_flight.before
       \/ \E p \in Callers :
            /\ Returned(p)
            /\ in_flight.calls[p].result.ok
            /\ in_flight.calls[p].result.value.session_state # session.state)

\* two sends ran together on a fresh session and returned, one with the
\* cached token and one with another
C16_Witness ==
  /\ BatchComplete
  /\ ~in_flight.before
  /\ \E p, q \in Callers :
       /\ Returned(p) /\ Returned(q)
       /\ in_flight.calls[p].result.ok
       /\ in_flight.calls[q].result.ok
       /\ in_flight.calls[p].result.value.session_state = session.state
       /\ in_flight.calls[q].result.value.session_state # session.state
  /\ session_outdated

WellFormed(raw) ==
  \A i \in DOMAIN raw.methodResponses : Len(raw.methodResponses[i]) = 3

\* the positions of the raw response whose entry carries call-id c
PositionsOf(raw, c) ==
  {i \in DOMAIN raw.methodResponses : raw.methodResponses[i][3] = c}

\* C14: a response of well-formed [name, payload, callId] triples parses,
\* and entries_for(c) is exactly its entries with call-id c in the order of
\* the response: empty when no entry carries c.
C14_EntriesForInResponseOrder ==
  (last.op = "entries_for" /\ WellFormed(last.args.raw)) =>
    /\ last.result.ok
    /\ LET raw == last.args.raw.methodResponses
           found == last.result.value
           at == PositionsOf(last.args.raw, last.args.call_id)
       IN /\ Len(found) = Cardinality(at)
          /\ \E f \in [DOMAIN found -> at] :
               /\ \A j, k \in DOMAIN found : j < k => f[j] < f[k]
               /\ \A k \in DOMAIN found :
                    found[k] = [name |-> raw[f[k]][1],
                                payload |-> raw[f[k]][2],
                                call_id |-> raw[f[k]][3]]

\* the t0/t1/t2 sample parsed and its t1 entry, Email/get, was returned
C14_Witness ==
  /\ last.op = "entries_for"
  /\ last.args.raw = SampleEnvelope
  /\ last.args.call_id = "t1"
  /\ last.result.ok
  /\ last.result.value =
       <<[name |-> "Email/get", payload |-> Payload, call_id |-> "t1"]>>

\* the protocol's property name of each kind of filter
ProtocolProperties ==
  {<<"InMailbox", "inMailbox">>,
   <<"InMailboxOtherThan", "inMailboxOtherThan">>,
   <<"Before", "before">>, <<"After", "after">>,
   <<"MinSize", "minSize">>, <<"MaxSize", "maxSize">>,
   <<"AllInThreadHaveKeyword", "allInThreadHaveKeyword">>,
   <<"SomeInThreadHaveKeyword", "someInThreadHaveKeyword">>,
   <<"NoneInThreadHaveKeyword", "noneInThreadHaveKeyword">>,
   <<"HasKeyword", "hasKeyword">>, <<"NotKeyword", "notKeyword">>,
   <<"HasAttachment", "hasAttachment">>, <<"Text", "text">>,
   <<"From", "from">>, <<"To", "to">>, <<"Cc", "cc">>, <<"Bcc", "bcc">>,
   <<"Subject", "subject">>, <<"Body", "body">>, <<"Header", "header">>}

OneKeyOfKind(filter, object) ==
  /\ Cardinality(DOMAIN object) = 1
  /\ \A key \in DOMAIN object :
       /\ <<filter.kind, key>> \in ProtocolProperties
       /\ object[key] = filter.value

\* C19: a Filter serializes to an object with exactly one key, the protocol
\* property name of its kind, and filters of different kinds serialize to
\* objects with different keys.
C19_FilterKeyIsItsKind ==
  last.op = "serialize" =>
    /\ OneKeyOfKind(last.args.a, last.result.value.a)
    /\ OneKeyOfKind(last.args.b, last.result.value.b)
    /\ last.args.a.kind # last.args.b.kind
         => /\ DOMAIN last.result.value.a # DOMAIN last.result.value.b
            /\ last.result.value.a # last.result.value.b

\* a hasKeyword and a notKeyword filter of the same keyword were serialized
C19_Witness ==
  /\ last.op = "serialize"
  /\ last.args.a = [kind |-> "HasKeyword", value |-> [string |-> "a"]]
  /\ last.args.b = [kind |-> "NotKeyword", value |-> [string |-> "a"]]
  /\ DOMAIN last.result.value.a = {"hasKeyword"}
  /\ DOMAIN last.result.value.b = {"notKeyword"}

====
